---- MODULE Spec2Model ----
(***************************************************************************)
(* Model of the delivery_routing package: proximity clustering             *)
(* (delivery_planner.py), tour construction and day-plan assembly          *)
(* (routing.py) and the travel-time client (geoapify_client.py).           *)
(*                                                                         *)
(* Units.  Latitudes and longitudes are integers in steps of 0.01 degree   *)
(* around (0, 0).  In that range cos(lat) = 1 to within 1e-7 and           *)
(* 2*R*asin(sqrt(h)) = R*sqrt(dlat^2 + dlon^2) (radians) to within a       *)
(* millimetre, so a haversine distance is held as a whole number of        *)
(* metres: one step is 6371 km * pi / 180 * 0.01 = 1112 m.  Distances are   *)
(* in metres, oracle times in seconds, everything called *_minutes in      *)
(* minutes.  Arithmetic is exact: two lengths that differ only by          *)
(* floating-point rounding (less than a metre) are equal here.             *)
(***************************************************************************)
EXTENDS Integers, Sequences, FiniteSets, TLC

\* ------------------------------------------------------------------ bounds

\* Most deliveries handed to _cluster_by_proximity.
MaxReq == 3

\* Grid points (latitude, longitude) a location may have.
Grid == {<<0, 0>>, <<1, 0>>, <<2, 0>>, <<0, 1>>}

\* Postcodes (integer codes, compared like the strings they stand for).
Postcodes == {1, 2, 3}

\* Most requests handed to build_day_plan, and stops handed to _two_opt.
MaxStops == 5

\* Postcodes of the requests of build_day_plan.
PlanPostcodes == {1, 2, 3, 4}

\* Calls of _two_opt in a row, each on the result of the one before.
TwoOptCalls == 2

\* service_minutes_per_stop and max_workday_minutes values.
ServiceChoices == {5, 10}

WorkdayChoices == {23, 480}

\* Most calls of route_matrix in one run.
MaxRouteCalls == 2

\* desired_date values.
Dates == {1, 2}

\* max_group_km values, in metres.
MaxGroupChoices == {1200, 2300}

\* ------------------------------------------------------------------ helpers

\* Python's None, where an Optional value is a tuple.
None == <<>>

Range(s) == {s[k] : k \in DOMAIN s}

RECURSIVE SeqsUpTo(_, _)
SeqsUpTo(S, n) ==
    IF n = 0 THEN {<<>>}
    ELSE LET shorter == SeqsUpTo(S, n - 1)
         IN  shorter \cup {Append(s, x) : s \in {t \in shorter : Len(t) = n - 1}, x \in S}

RECURSIVE SumSeq(_)
SumSeq(s) == IF s = <<>> THEN 0 ELSE Head(s) + SumSeq(Tail(s))

RECURSIVE Flatten(_)
Flatten(ss) == IF ss = <<>> THEN <<>> ELSE Head(ss) \o Flatten(Tail(ss))

Reverse(s) == [k \in 1..Len(s) |-> s[Len(s) + 1 - k]]

\* ------------------------------------------------------------------ models.py

GeocodedLocation(id, lat, lon) == [identifier |-> id, latitude |-> lat, longitude |-> lon]

DeliveryRequest(rcp, pc_, d) == [recipient |-> rcp, postcode |-> pc_, desired_date |-> d]

\* ------------------------------------------------------------------ distances

\* Metres per grid step: 6371 km * radians(0.01).
MetresPerStep == 1112

\* floor(sqrt(n)), by bisection.
RECURSIVE ISqrtIn(_, _, _)
ISqrtIn(n, lo, hi) ==
    IF lo >= hi THEN lo
    ELSE LET mid == (lo + hi + 1) \div 2
         IN  IF mid * mid <= n THEN ISqrtIn(n, mid, hi) ELSE ISqrtIn(n, lo, mid - 1)

ISqrt(n) == ISqrtIn(n, 0, 46340)

\* The differences two coordinates of the grid can have.
GridDeltas ==
    LET values == {g[1] : g \in Grid} \cup {g[2] : g \in Grid}
    IN  {a - b : a \in values, b \in values}

\* 2 * R * asin(sqrt(sin(dlat/2)^2 + cos(lat1)*cos(lat2)*sin(dlon/2)^2)), in
\* metres, for every pair of differences (computed once).
GreatCircleMetres ==
    [d \in GridDeltas \X GridDeltas |->
        ISqrt((d[1] * d[1] + d[2] * d[2]) * MetresPerStep * MetresPerStep)]

GreatCircle(dlat, dlon) == GreatCircleMetres[<<dlat, dlon>>]

\* delivery_planner._haversine_km: dlon = lon2 - lon1, dlat = lat2 - lat1.
_haversine_km(a, b) ==
    GreatCircle(b.latitude - a.latitude, b.longitude - a.longitude)

\* ------------------------------------------------------------------ state

VARIABLES
    locations,      \* postcode -> GeocodedLocation (postcode_locations, geo_locations)
    \* _cluster_by_proximity
    deliveries,     \* the requests given to it
    max_group_km,   \* its threshold (metres)
    ordered,        \* the sorted requests
    pos,            \* index in ordered of the next request to place
    clusters,       \* the clusters built so far
    cpc,            \* "start" | "loop" | "done" | "idle"
    \* build_day_plan and _two_opt
    requests,       \* list(deliveries) of build_day_plan
    depot,          \* the depot's GeocodedLocation
    service_minutes_per_stop,
    max_workday_minutes,
    coords_latlon,  \* (lat, lon) per index, index 0 first
    seed,           \* the order handed to _two_opt (_nearest_neighbor_order's)
    two_opt,        \* locals of _two_opt: [best, best_len, improved]
    order,          \* what _two_opt returned
    calls,          \* calls of _two_opt made so far
    first_result,   \* what the first call of _two_opt returned
    matrix,         \* what matrix_builder returned: edge -> [time |-> seconds]
    plan,           \* the DayPlan returned (pc = "done"), else None
    pc,             \* position in build_day_plan / _two_opt
    \* GeoapifyClient.route_matrix
    queries,        \* the bodies POSTed to the travel-time service so far
    rm_call,        \* the last call of route_matrix and how it ended, or None
    rm_count        \* calls of route_matrix so far

clusterVars == <<deliveries, max_group_km, ordered, pos, clusters, cpc>>

planInputs == <<requests, depot, service_minutes_per_stop, max_workday_minutes>>

tourVars == <<coords_latlon, seed, two_opt, order, calls, first_result>>

planVars == <<planInputs, tourVars, matrix, plan, pc>>

oracleVars == <<queries, rm_call, rm_count>>

vars == <<locations, clusterVars, planVars, oracleVars>>

ClusterIdle ==
    /\ deliveries = <<>>
    /\ max_group_km = 0
    /\ ordered = <<>>
    /\ pos = 1
    /\ clusters = <<>>
    /\ cpc = "idle"

PlanIdle ==
    /\ requests = <<>>
    /\ depot = GeocodedLocation(0, 0, 0)
    /\ service_minutes_per_stop = 0
    /\ max_workday_minutes = 0
    /\ coords_latlon = <<>>
    /\ seed = <<>>
    /\ two_opt = [best |-> <<>>, best_len |-> 0, improved |-> FALSE]
    /\ order = <<>>
    /\ calls = 0
    /\ first_result = <<>>
    /\ matrix = <<>>
    /\ plan = None
    /\ pc = "idle"

OracleIdle ==
    /\ queries = <<>>
    /\ rm_call = None
    /\ rm_count = 0

\* ------------------------------------------------------------------ delivery_planner.py

LocationMaps(codes) ==
    {[p \in codes |-> GeocodedLocation(p, g[p][1], g[p][2])] : g \in [codes -> Grid]}

\* The sort key of _cluster_by_proximity, compared as Python compares tuples.
SortKey(req, locs) ==
    <<locs[req.postcode].latitude, locs[req.postcode].longitude, req.desired_date, req.postcode>>

RECURSIVE TupleLess(_, _)
TupleLess(a, b) ==
    IF a = <<>> \/ b = <<>> THEN FALSE
    ELSE IF Head(a) # Head(b) THEN Head(a) < Head(b)
    ELSE TupleLess(Tail(a), Tail(b))

\* sorted() is stable: r goes after every element whose key is not greater.
RECURSIVE InsertSorted(_, _, _)
InsertSorted(s, r, locs) ==
    IF s = <<>> THEN <<r>>
    ELSE IF TupleLess(SortKey(r, locs), SortKey(Head(s), locs))
         THEN <<r>> \o s
         ELSE <<Head(s)>> \o InsertSorted(Tail(s), r, locs)

RECURSIVE SortedRequests(_, _)
SortedRequests(s, locs) ==
    IF s = <<>> THEN <<>>
    ELSE InsertSorted(SortedRequests(SubSeq(s, 1, Len(s) - 1), locs), s[Len(s)], locs)

\* The all(...) test: request is within max_km of every member of cluster.
FitsAny(request, cluster, locs, max_km) ==
    \E k \in DOMAIN cluster :
        _haversine_km(locs[request.postcode], locs[cluster[k].postcode]) <= max_km

Fits(request, cluster, locs, max_km) ==
    \A k \in DOMAIN cluster :
        _haversine_km(locs[request.postcode], locs[cluster[k].postcode]) <= max_km

\* The inner for/else: append to the first cluster that fits and break, or
\* start a new cluster.
PlaceNoBreak(cs, request, locs, max_km) ==
    [k \in 1..Len(cs) |->
        IF Fits(request, cs[k], locs, max_km) THEN Append(cs[k], request) ELSE cs[k]]
    \o <<<<request>>>>

Place(cs, request, locs, max_km) ==
    LET fitting == {k \in DOMAIN cs : Fits(request, cs[k], locs, max_km)}
    IN  IF fitting = {} THEN Append(cs, <<request>>)
        ELSE LET first == CHOOSE k \in fitting : \A m \in fitting : k <= m
             IN  [cs EXCEPT ![first] = Append(cs[first], request)]

InitCluster ==
    /\ locations \in LocationMaps(Postcodes)
    /\ deliveries \in
         {[k \in DOMAIN s |-> DeliveryRequest(k, s[k][1], s[k][2])] :
             s \in SeqsUpTo(Postcodes \X Dates, MaxReq)}
    /\ max_group_km \in MaxGroupChoices
    /\ ordered = <<>>
    /\ pos = 1
    /\ clusters = <<>>
    /\ cpc = "start"
    /\ PlanIdle
    /\ OracleIdle

\* ordered = sorted(deliveries, key=...); clusters = []
ClusterSort ==
    /\ cpc = "start"
    /\ ordered' = SortedRequests(deliveries, locations)
    /\ pos' = 1
    /\ clusters' = <<>>
    /\ cpc' = "loop"
    /\ UNCHANGED <<locations, deliveries, max_group_km, planVars, oracleVars>>

\* One iteration of "for request in ordered".
ClusterStep ==
    /\ cpc = "loop"
    /\ pos <= Len(ordered)
    /\ clusters' = Place(clusters, ordered[pos], locations, max_group_km)
    /\ pos' = pos + 1
    /\ UNCHANGED <<locations, deliveries, max_group_km, ordered, cpc, planVars, oracleVars>>

\* return clusters
ClusterReturn ==
    /\ cpc = "loop"
    /\ pos > Len(ordered)
    /\ cpc' = "done"
    /\ UNCHANGED <<locations, deliveries, max_group_km, ordered, pos, clusters, planVars, oracleVars>>

NextCluster == ClusterSort \/ ClusterStep \/ ClusterReturn

SpecCluster == InitCluster /\ [][NextCluster]_vars

\* ------------------------------------------------------------------ routing.py

\* coords[i] of the code, i counted from 0.
At(coords, i) == coords[i + 1]

\* routing._haversine on (lat, lon) tuples: dlat = lat2 - lat1, dlon = lat2 - lon1.
_haversine(a, b) == GreatCircle(b[1] - a[1], b[1] - a[2])

\* min(unvisited, key=...): the first of the nearest in the set's iteration
\* order, which for a set of small ints is ascending.
Nearest(unvisited, current, coords) ==
    CHOOSE i \in unvisited : \A m \in unvisited :
        \/ _haversine(At(coords, current), At(coords, i))
             < _haversine(At(coords, current), At(coords, m))
        \/ /\ _haversine(At(coords, current), At(coords, i))
                = _haversine(At(coords, current), At(coords, m))
           /\ i <= m

RECURSIVE NearestNeighborLoop(_, _, _, _)
NearestNeighborLoop(ord, unvisited, current, coords) ==
    IF unvisited = {} THEN ord
    ELSE LET nxt == Nearest(unvisited, current, coords)
         IN  NearestNeighborLoop(Append(ord, nxt), unvisited \ {nxt}, nxt, coords)

_nearest_neighbor_order(coords) ==
    NearestNeighborLoop(<<0>>, 1..(Len(coords) - 1), 0, coords)

_route_length(ord, coords) ==
    SumSeq([k \in 1..(Len(ord) - 1) |->
              _haversine(At(coords, ord[k]), At(coords, ord[k + 1]))])

\* best[:i] + best[i:j][::-1] + best[j:]
NewRouteDropping(best, i, j) ==
    SubSeq(best, 1, i) \o Reverse(SubSeq(best, i + 1, j)) \o SubSeq(best, j + 2, Len(best))

NewRoute(best, i, j) ==
    SubSeq(best, 1, i) \o Reverse(SubSeq(best, i + 1, j)) \o SubSeq(best, j + 1, Len(best))

\* if new_len < best_len
ImprovesReversed(new_len, best_len) == new_len > best_len

Improves(new_len, best_len) == new_len < best_len

\* best = new_route; best_len = new_len; improved = True
AcceptUnflagged(new_route, new_len) ==
    [best |-> new_route, best_len |-> new_len, improved |-> FALSE]

Accept(new_route, new_len) ==
    [best |-> new_route, best_len |-> new_len, improved |-> TRUE]

\* The two for loops of one pass of "while improved", from (i, j) on.
RECURSIVE TwoOptScan(_, _, _, _)
TwoOptScan(st, i, j, coords) ==
    IF i >= Len(st.best) - 2 THEN st
    ELSE IF j >= Len(st.best) - 1 THEN TwoOptScan(st, i + 1, i + 2, coords)
    ELSE LET new_route == NewRoute(st.best, i, j)
             new_len == _route_length(new_route, coords)
         IN  TwoOptScan(IF Improves(new_len, st.best_len)
                           THEN Accept(new_route, new_len) ELSE st,
                        i, j + 1, coords)

\* improved = True; best = order; best_len = _route_length(best, coords)
TwoOptEntry(ord, coords) ==
    [best |-> ord, best_len |-> _route_length(ord, coords), improved |-> TRUE]

\* One iteration of "while improved": improved = False, then the scan.
TwoOptPass ==
    /\ pc \in {"two_opt", "two_opt_direct"}
    /\ two_opt.improved
    /\ two_opt' = TwoOptScan([two_opt EXCEPT !.improved = FALSE], 1, 2, coords_latlon)
    /\ UNCHANGED <<locations, clusterVars, oracleVars, planInputs, coords_latlon, seed, order,
                   calls, first_result, matrix, plan, pc>>

\* return best, to build_day_plan or to the direct caller.
TwoOptReturn ==
    /\ pc \in {"two_opt", "two_opt_direct"}
    /\ ~two_opt.improved
    /\ order' = two_opt.best
    /\ calls' = calls + 1
    /\ first_result' = IF calls = 0 THEN two_opt.best ELSE first_result
    /\ pc' = IF pc = "two_opt" THEN "query" ELSE "returned"
    /\ UNCHANGED <<locations, clusterVars, oracleVars, planInputs, coords_latlon, seed, two_opt,
                   matrix, plan>>

\* A second call of _two_opt, on what the first returned.
TwoOptAgain ==
    /\ pc = "returned"
    /\ calls < TwoOptCalls
    /\ seed' = order
    /\ two_opt' = TwoOptEntry(order, coords_latlon)
    /\ pc' = "two_opt_direct"
    /\ UNCHANGED <<locations, clusterVars, oracleVars, planInputs, coords_latlon, order, calls,
                   first_result, matrix, plan>>

\* The orders _two_opt is called on directly: 0, 1, .., n-1.  _two_opt reads
\* an order only through coords[order[k]], so with every assignment of
\* coordinates this stands for every order of the n indices.
InputOrders(n) == {[k \in 1..n |-> k - 1]}

\* _two_opt(order, coords) is called directly.
TwoOptCall ==
    /\ pc = "idle"
    /\ \E coords \in SeqsUpTo(Grid, MaxStops + 1) \ {<<>>} :
         \E ord \in InputOrders(Len(coords)) :
            /\ coords_latlon' = coords
            /\ seed' = ord
            /\ two_opt' = TwoOptEntry(ord, coords)
    /\ pc' = "two_opt_direct"
    /\ UNCHANGED <<locations, clusterVars, oracleVars, planInputs, order, calls,
                   first_result, matrix, plan>>

InitTwoOpt ==
    /\ locations = <<>>
    /\ ClusterIdle
    /\ PlanIdle
    /\ OracleIdle

NextTwoOpt == TwoOptCall \/ TwoOptPass \/ TwoOptReturn \/ TwoOptAgain

SpecTwoOpt == InitTwoOpt /\ [][NextTwoOpt]_vars

\* ------------------------------------------------------------------ build_day_plan

\* The label of index 0 ("Depot"), as a code no postcode has.
DepotLabel == 0

\* The locations of the postcodes of build_day_plan's requests.
PlanLocations ==
    [p \in PlanPostcodes |->
        CASE p = 1 -> GeocodedLocation(p, 0, 0)
          [] p = 2 -> GeocodedLocation(p, 1, 0)
          [] p = 3 -> GeocodedLocation(p, 2, 0)
          [] OTHER -> GeocodedLocation(p, 0, 1)]

\* The depot: an address of its own, or the postcode of a request.
DepotChoices == {GeocodedLocation(9, 0, 1), GeocodedLocation(1, 0, 0)}

\* coordinates = [depot] + [geo_locations[r.postcode] for r in requests]
Coordinates(dep, reqs, locs) ==
    <<dep>> \o [k \in 1..Len(reqs) |-> locs[reqs[k].postcode]]

\* labels = ["Depot"] + [r.postcode for r in requests]
Labels(reqs) == <<DepotLabel>> \o [k \in 1..Len(reqs) |-> reqs[k].postcode]

\* coords_latlon = [(loc.latitude, loc.longitude) for loc in coordinates]
LatLon(coordinates) ==
    [k \in 1..Len(coordinates) |-> <<coordinates[k].latitude, coordinates[k].longitude>>]

\* edges = zip(order, order[1:]), then (order[-1], order[0])
Edges(ord) ==
    [k \in 1..(Len(ord) - 1) |-> <<ord[k], ord[k + 1]>>] \o <<<<ord[Len(ord)], ord[1]>>>>

\* matrix_builder(coordinates, edges=edges): the identifiers of the origin and
\* the target of every edge handed to the travel-time oracle, in order.
SubmittedPairs(coordinates, edges) ==
    [k \in 1..Len(edges) |->
        <<At(coordinates, edges[k][1]).identifier, At(coordinates, edges[k][2]).identifier>>]

Abs(x) == IF x < 0 THEN -x ELSE x

\* What the travel-time service behind matrix_builder answers for origin a
\* and target b, in seconds: a minute, and a minute per grid step driven
\* along the street grid.
TravelSeconds(a, b) ==
    60 * (1 + Abs(b.latitude - a.latitude) + Abs(b.longitude - a.longitude))

\* The matrices matrix_builder may return for edges: every edge, none, or all
\* but one.
Matrices(coordinates, edges) ==
    LET all == Range(edges)
        kept == {all, {}} \cup {all \ {e} : e \in all}
    IN  {[e \in k |->
            [time |-> TravelSeconds(At(coordinates, e[1]), At(coordinates, e[2]))]] :
         k \in kept}

\* sum(matrix[(a, b)]["time"] / 60.0 for (a, b) in edges if (a, b) in matrix)
DriveMinutes(m, edges) ==
    SumSeq([k \in 1..Len(edges) |->
              IF edges[k] \in DOMAIN m THEN m[edges[k]].time \div 60 ELSE 0])

\* stop_order_labels = [labels[i] for i in order[1:]]
StopOrder(labels, ord) == [k \in 1..(Len(ord) - 1) |-> At(labels, ord[k + 1])]

\* service_minutes = len(requests) * service_minutes_per_stop
ServiceMinutes(reqs, per_stop) == Len(reqs) * per_stop

\* feasible = total_minutes <= max_workday_minutes
FeasibleStrict(total_minutes, max_minutes) == total_minutes < max_minutes

Feasible(total_minutes, max_minutes) == total_minutes <= max_minutes

\* reason = None if feasible else f"Estimated {total_minutes:.1f} min exceeds limit"
Reason(feasible, total_minutes) ==
    IF feasible THEN None ELSE <<"Estimated", total_minutes, "min exceeds limit">>

\* The DayPlan build_day_plan returns (its date is the date_label passed in).
DayPlan(reqs, labels, ord, m, per_stop, max_minutes) ==
    LET drive_minutes == DriveMinutes(m, Edges(ord))
        service_minutes == ServiceMinutes(reqs, per_stop)
        total_minutes == drive_minutes + service_minutes
        feasible == Feasible(total_minutes, max_minutes)
    IN  [requests |-> reqs,
         stop_order |-> StopOrder(labels, ord),
         drive_minutes |-> drive_minutes,
         service_minutes |-> service_minutes,
         feasible |-> feasible,
         reason |-> Reason(feasible, total_minutes)]

InitPlan ==
    /\ locations = PlanLocations
    /\ ClusterIdle
    /\ requests \in
         {[k \in DOMAIN s |-> DeliveryRequest(k, s[k], 1)] : s \in SeqsUpTo(PlanPostcodes, MaxStops)}
    /\ depot \in DepotChoices
    /\ service_minutes_per_stop \in ServiceChoices
    /\ max_workday_minutes \in WorkdayChoices
    /\ coords_latlon = <<>>
    /\ seed = <<>>
    /\ two_opt = [best |-> <<>>, best_len |-> 0, improved |-> FALSE]
    /\ order = <<>>
    /\ calls = 0
    /\ first_result = <<>>
    /\ matrix = <<>>
    /\ plan = None
    /\ pc = "start"
    /\ OracleIdle

\* "if not requests: raise ValueError"
PlanRejectEmpty ==
    /\ pc = "start"
    /\ requests = <<>>
    /\ pc' = "raised"
    /\ UNCHANGED <<locations, clusterVars, oracleVars, planInputs, tourVars, matrix, plan>>

\* coordinates, labels, coords_latlon, order = _nearest_neighbor_order(...),
\* and the entry of _two_opt(order, coords_latlon).
PlanSeed ==
    /\ pc = "start"
    /\ requests # <<>>
    /\ coords_latlon' = LatLon(Coordinates(depot, requests, locations))
    /\ seed' = _nearest_neighbor_order(coords_latlon')
    /\ two_opt' = TwoOptEntry(seed', coords_latlon')
    /\ pc' = "two_opt"
    /\ UNCHANGED <<locations, clusterVars, oracleVars, planInputs, order, calls, first_result,
                   matrix, plan>>

\* matrix = matrix_builder(coordinates, edges=edges) returns, and the rest of
\* build_day_plan up to "return DayPlan(...)".
PlanAssemble ==
    /\ pc = "query"
    /\ \E m \in Matrices(Coordinates(depot, requests, locations), Edges(order)) :
         /\ matrix' = m
         /\ plan' = DayPlan(requests, Labels(requests), order, m,
                            service_minutes_per_stop, max_workday_minutes)
    /\ pc' = "done"
    /\ UNCHANGED <<locations, clusterVars, oracleVars, planInputs, tourVars>>

\* matrix_builder raises: build_day_plan raises with it.
PlanQueryRaises ==
    /\ pc = "query"
    /\ pc' = "raised"
    /\ UNCHANGED <<locations, clusterVars, oracleVars, planInputs, tourVars, matrix, plan>>

NextPlan ==
    PlanRejectEmpty \/ PlanSeed \/ TwoOptPass \/ TwoOptReturn \/ PlanAssemble \/ PlanQueryRaises

SpecPlan == InitPlan /\ [][NextPlan]_vars

\* ------------------------------------------------------------------ geoapify_client.py

\* "sources * targets <= 1000 cells"
CellLimit == 1000

\* <<1, 2, .., n>>
Run(n) == [k \in 1..n |-> k]

\* The origins and targets route_matrix is called with; a location is held
\* by its identifier.
OriginChoices ==
    {<<>>, <<1>>, <<1, 1>>, <<1, 2>>, Run(40), Append(Run(40), 1), Run(41)}

TargetChoices == {<<1>>, <<2, 1, 2>>, Run(25)}

RECURSIVE DedupeFrom(_, _)
DedupeFrom(sequence, seen) ==
    IF sequence = <<>> THEN <<>>
    ELSE IF Head(sequence) \in seen THEN DedupeFrom(Tail(sequence), seen)
    ELSE <<Head(sequence)>> \o DedupeFrom(Tail(sequence), seen \cup {Head(sequence)})

\* _dedupe: the first occurrence of every identifier, in order.
_dedupeOff(sequence) == sequence

_dedupe(sequence) == DedupeFrom(sequence, {})

\* The combined location list ("if loc.identifier in index_by_id: continue").
CombinedLocations(unique_origins, unique_targets) ==
    DedupeFrom(unique_origins \o unique_targets, {})

\* index_by_id[id], counted from 0.
IndexById(locs, id) == (CHOOSE k \in DOMAIN locs : locs[k] = id) - 1

\* "if sources and target_indices and len(sources) * len(target_indices) > 1000"
ExceedsLimitBySum(n_sources, n_targets) ==
    n_sources > 0 /\ n_targets > 0 /\ n_sources + n_targets > CellLimit

ExceedsLimit(n_sources, n_targets) ==
    n_sources > 0 /\ n_targets > 0 /\ n_sources * n_targets > CellLimit

\* The JSON body of the POST.
Body(unique_origins, unique_targets) ==
    LET locs == CombinedLocations(unique_origins, unique_targets)
    IN  [sources |-> [k \in DOMAIN unique_origins |-> IndexById(locs, unique_origins[k])],
         targets |-> [k \in DOMAIN unique_targets |-> IndexById(locs, unique_targets[k])],
         locations |-> locs]

\* What the service charges from origin o to target t, in seconds.
ServiceSeconds(o, t) == 60 * (2 * o + t)

\* How the service may answer: the whole matrix, its first row only, no
\* rows at all, or an HTTP error status.
Answers == {"full", "first_row", "empty", "http_error"}

\* payload.get("sources_to_targets", [])
Durations(answer, unique_origins, unique_targets) ==
    LET rows == IF answer = "full" THEN Len(unique_origins)
                ELSE IF answer = "first_row" /\ unique_origins # <<>> THEN 1
                ELSE 0
    IN  [r \in 1..rows |->
            [c \in 1..Len(unique_targets) |->
                [time |-> ServiceSeconds(unique_origins[r], unique_targets[c])]]]

\* times[(origin_id, target_id)] = float(cell["time"] / 60.0), rows and cells
\* in order (a later cell of the same pair overwrites an earlier one).
Times(durations, unique_origins, unique_targets) ==
    LET LastAt(seq, n, id) ==
            CHOOSE k \in 1..n : seq[k] = id /\ \A m \in 1..n : seq[m] = id => m <= k
        rows == Len(durations)
        cols == IF rows = 0 THEN 0 ELSE Len(durations[1])
        pairs == {<<unique_origins[r], unique_targets[c]>> : r \in 1..rows, c \in 1..cols}
    IN  [p \in pairs |->
            durations[LastAt(unique_origins, rows, p[1])]
                     [LastAt(unique_targets, cols, p[2])].time \div 60]

\* One call of route_matrix(origins, targets), to its return or its raise.
RouteMatrix ==
    /\ rm_count < MaxRouteCalls
    /\ rm_count' = rm_count + 1
    /\ \E origins \in OriginChoices, targets \in TargetChoices, answer \in Answers :
         LET unique_origins == _dedupe(origins)
             unique_targets == _dedupe(targets)
             body == Body(unique_origins, unique_targets)
             durations == Durations(answer, unique_origins, unique_targets)
             call == [origins |-> origins, targets |-> targets,
                      queries_before |-> Len(queries)]
         IN  IF ExceedsLimit(Len(body.sources), Len(body.targets))
             THEN /\ answer = "full"
                  /\ queries' = queries
                  /\ rm_call' = <<call @@ [outcome |-> "raised", times |-> <<>>]>>
             ELSE /\ queries' = Append(queries, body @@ [answered |-> durations # <<>>])
                  /\ rm_call' =
                       IF answer = "http_error" \/ durations = <<>>
                       THEN <<call @@ [outcome |-> "raised", times |-> <<>>]>>
                       ELSE <<call @@ [outcome |-> "returned",
                                       times |-> Times(durations, unique_origins,
                                                       unique_targets)]>>
    /\ UNCHANGED <<locations, clusterVars, planVars>>

InitOracle ==
    /\ locations = <<>>
    /\ ClusterIdle
    /\ PlanIdle
    /\ OracleIdle

NextOracle == RouteMatrix

SpecOracle == InitOracle /\ [][NextOracle]_vars

\* ------------------------------------------------------------------ properties

Count(seq, x) == Cardinality({k \in DOMAIN seq : seq[k] = x})

NoRepeat(seq) == \A k, m \in DOMAIN seq : k # m => seq[k] # seq[m]

\* C1: when _cluster_by_proximity returns, the clusters are a partition of
\* the input: no cluster is empty, and the members of all clusters together
\* are the input requests, each exactly once and nothing else.
C1_ClustersPartitionInput ==
    cpc = "done" =>
        /\ \A k \in DOMAIN clusters : clusters[k] # <<>>
        /\ Len(Flatten(clusters)) = Len(deliveries)
        /\ Range(Flatten(clusters)) = Range(deliveries)
        /\ NoRepeat(Flatten(clusters))

C1_Witness ==
    /\ cpc = "done"
    /\ Len(deliveries) >= 3
    /\ Len(clusters) = 2

\* C2: after every prefix of the sorted requests, and so in the result, any
\* two members of one cluster are at most max_group_km apart.
C2_ClusterPairsWithinThreshold ==
    \A k \in DOMAIN clusters : \A a, b \in DOMAIN clusters[k] :
        _haversine_km(locations[clusters[k][a].postcode],
                      locations[clusters[k][b].postcode]) <= max_group_km

\* A request sits in a later cluster although it is near one member of an
\* earlier cluster: it is too far from another member of that cluster.
C2_Witness ==
    /\ cpc \in {"loop", "done"}
    /\ \E k, m \in DOMAIN clusters :
         /\ k < m
         /\ \E r \in Range(clusters[m]), e, f \in Range(clusters[k]) :
              /\ _haversine_km(locations[r.postcode], locations[e.postcode]) <= max_group_km
              /\ _haversine_km(locations[r.postcode], locations[f.postcode]) > max_group_km

\* C3: the visiting order of build_day_plan starts at the depot (index 0)
\* and visits every index once; stop_order is the requests' postcodes, each
\* as often as it occurs among the requests, and has no depot entry.
C3_StopOrderIsPermutation ==
    /\ pc \in {"query", "done"} =>
         /\ order[1] = 0
         /\ Len(order) = Len(requests) + 1
         /\ Range(order) = 0..Len(requests)
         /\ \A k \in 2..Len(order) : order[k] # 0
    /\ pc = "done" =>
         /\ Len(plan.stop_order) = Len(requests)
         /\ \A p \in PlanPostcodes \cup {DepotLabel} :
              Count(plan.stop_order, p) = Count([k \in DOMAIN requests |-> requests[k].postcode], p)

\* 2-opt changed the nearest-neighbour order of a cluster with a repeated postcode.
C3_Witness ==
    /\ pc = "done"
    /\ order # seed
    /\ \E k, m \in DOMAIN requests : k # m /\ requests[k].postcode = requests[m].postcode

\* What the travel-time service charges along the closed tour of ord, in minutes.
TourMinutes(ord) ==
    LET coordinates == Coordinates(depot, requests, locations)
        edges == Edges(ord)
    IN  SumSeq([k \in DOMAIN edges |->
                  TravelSeconds(At(coordinates, edges[k][1]),
                                At(coordinates, edges[k][2])) \div 60])

\* C4: the drive_minutes of the returned DayPlan is the sum of the oracle
\* times of every edge of depot -> stop_order[0] -> .. -> depot.
C4_DriveMinutesIsClosedTourSum ==
    pc = "done" => plan.drive_minutes = TourMinutes(order)

LocalOptimum(ord, coords) ==
    \A i \in 1..(Len(ord) - 3) : \A j \in (i + 1)..(Len(ord) - 2) :
        _route_length(SubSeq(ord, 1, i) \o Reverse(SubSeq(ord, i + 1, j))
                         \o SubSeq(ord, j + 1, Len(ord)), coords)
            >= _route_length(ord, coords)

\* C6: _two_opt terminates, because a pass that asks for another pass has
\* shortened best_len, which is never negative; what it returns has no
\* shorter reversal left, and a second call on it returns the same order.
C6_TwoOptTerminatesAtFixedPoint ==
    /\ [][(two_opt' # two_opt /\ two_opt'.improved /\ pc' = pc /\ two_opt.best # <<>>)
            => two_opt'.best_len < two_opt.best_len]_vars
    /\ [](two_opt.best_len >= 0)
    /\ [](pc = "returned" => order = two_opt.best /\ LocalOptimum(order, coords_latlon))
    /\ [](pc = "returned" /\ calls >= 2 => order = first_result)

\* The second call returned, and the first had changed the order it was given.
C6_Witness ==
    /\ pc = "returned"
    /\ calls = 2
    /\ order \notin InputOrders(Len(order))

PairsOf(q) ==
    {<<At(q.locations, q.sources[k]), At(q.locations, q.targets[m])>> :
        k \in DOMAIN q.sources, m \in DOMAIN q.targets}

OverBudget ==
    /\ rm_call # None
    /\ Cardinality(Range(rm_call[1].origins)) * Cardinality(Range(rm_call[1].targets))
         > CellLimit

\* C9 as stated: a request over the budget is served by several queries
\* within the budget, and none of its pairs is left unresolved.
C9_OverBudgetRequestIsCovered ==
    OverBudget =>
        \A o \in Range(rm_call[1].origins), t \in Range(rm_call[1].targets) :
            <<o, t>> \in DOMAIN rm_call[1].times

\* C9 amended: no query is over the budget; a request over the budget makes
\* route_matrix raise before it sends anything.
C9_OverBudgetRequestIsRefused ==
    /\ \A k \in DOMAIN queries :
         Len(queries[k].sources) * Len(queries[k].targets) <= CellLimit
    /\ OverBudget =>
         /\ rm_call[1].outcome = "raised"
         /\ Len(queries) = rm_call[1].queries_before

\* A query of exactly the budget was sent, then a request over it refused.
C9_Witness ==
    /\ OverBudget
    /\ Len(queries) = 1
    /\ Len(queries[1].sources) * Len(queries[1].targets) = CellLimit

\* C10: a DayPlan is returned only when the matrix has a time for every edge
\* of the tour.
C10_NoPlanFromPartialMatrix ==
    pc = "done" => \A e \in Range(Edges(order)) : e \in DOMAIN matrix

\* C11: no edge that build_day_plan hands to the travel-time oracle has the
\* same identifier as origin and target, also when two requests share a
\* postcode or a request's postcode is the depot's identifier.
C11_NoSameIdentifierEdgeQueried ==
    pc = "query" =>
        \A p \in Range(SubmittedPairs(Coordinates(depot, requests, locations), Edges(order))) :
            p[1] # p[2]

====
